---- MODULE Spec2Model ----
(***************************************************************************)
(* A model of the microblog application: the User / Post tables and the   *)
(* "followers" association table of app/models.py, the follow-graph       *)
(* methods of User, the feed query User.following_posts, and the          *)
(* register / login / logout / protected-page handlers of app/routes.py.  *)
(*                                                                         *)
(* Two programs drive this state.  tests.py drives the model layer        *)
(* directly (db.session.add, follow, unfollow, following_posts): that is  *)
(* specification Spec.  The web application drives the users table and    *)
(* the login session through the routes: that is specification            *)
(* SpecRoutes.  No route calls follow/unfollow or creates a Post.         *)
(***************************************************************************)
EXTENDS Integers, Sequences, FiniteSets, Bags, TLC

VARIABLES users, followers, posts, session, response

vars == <<users, followers, posts, session, response>>

(***************************************************************************)
(* Bounds of the model and the fixture the model layer is driven with.    *)
(***************************************************************************)
\* rows the followers table may hold
MaxEdges == 3
\* rows the post table may hold
MaxPosts == 2

\* the users tests.py creates, in creation order
UserNames == <<"john", "susan", "mary">>

UserEmails == <<"john@example.com", "susan@example.com", "mary@example.com">>

None == "None"
\* SQL NULL in an id column (ids start at 1)
NULL == 0

\* the timestamps a post is created with: an earlier and a later one, so
\* that posts can be ordered either way and can tie
Timestamps == {1, 2}

(***************************************************************************)
(* The tables.                                                             *)
(*   users     : the user table, a sequence of rows; a row's id is its     *)
(*               position (autoincrement primary key, no row is deleted).  *)
(*   followers : the association table, a bag of <<follower_id,            *)
(*               followed_id>> rows.                                       *)
(*   posts     : the post table, a sequence of rows; id = position.        *)
(***************************************************************************)
UserIds == 1..Len(users)

PostIds == 1..Len(posts)

\* password_hash of a user whose password was never set (the column is None)
NoHash == [salt |-> None, digest |-> <<>>]

\* a row of the user table; last_seen is kept as the origin of its value:
\* the column default at insert ("created") or a request ("request")
User(username, email, password_hash) ==
    [username |-> username, email |-> email, password_hash |-> password_hash,
     last_seen |-> "created"]

Post(user_id, timestamp) == [user_id |-> user_id, timestamp |-> timestamp]

\* A statement's outcome: the table after it and the exception it raised.
Done(table) == [table |-> table, error |-> None]

Raise(table, error) == [table |-> table, error |-> error]

\* INSERT INTO followers: the composite primary key rejects a second copy
\* of a (follower_id, followed_id) pair.
followers_insert(row) ==
    IF BagIn(row, followers)
    THEN Raise(followers, "IntegrityError")
    ELSE Done(followers (+) SetToBag({row}))

\* DELETE FROM followers WHERE follower_id = .. AND followed_id = ..: the
\* unit of work expects to delete one row.
followers_delete(row) ==
    IF BagIn(row, followers)
    THEN Done(followers (-) SetToBag({row}))
    ELSE Raise(followers, "StaleDataError")

(***************************************************************************)
(* The two relationships over the association table.                       *)
(***************************************************************************)
\* the rows of the join of followers with user that a relationship selects
RelationshipRows(primary, secondary, id) ==
    UNION { { [row |-> w, copy |-> k] : k \in 1..CopiesIn(w, followers) } :
            w \in { x \in BagToSet(followers) :
                      x[primary] = id /\ x[secondary] \in UserIds } }

\* User.following: primaryjoin follower_id == id, secondaryjoin followed_id == id
following(id) == RelationshipRows(1, 2, id)

\* User.followers joined on the follower_id column, as User.following is
User_followers_samejoin(id) == RelationshipRows(1, 2, id)

\* User.followers: primaryjoin followed_id == id, secondaryjoin follower_id == id
User_followers(id) == RelationshipRows(2, 1, id)

\* the users a relationship's rows lead to
Targets(rows, secondary) == { r.row[secondary] : r \in rows }

is_following(self, user) ==
    \E r \in following(self) : r.row[2] = user

\* follow that stores the edge the wrong way round
follow_reversed(self, user) ==
    IF ~is_following(self, user)
    THEN followers_insert(<<user, self>>)
    ELSE Done(followers)

\* follow without the is_following guard
follow_unguarded(self, user) == followers_insert(<<self, user>>)

\* follow that leaves out a user following themselves
follow_noself(self, user) ==
    IF ~is_following(self, user) /\ self # user
    THEN followers_insert(<<self, user>>)
    ELSE Done(followers)

\* follow that makes the followed user follow back
follow_mutual(self, user) ==
    IF ~is_following(self, user)
    THEN Done(followers
                (+) SetToBag({<<self, user>>, <<user, self>>} \ BagToSet(followers)))
    ELSE Done(followers)

follow(self, user) ==
    IF ~is_following(self, user)
    THEN followers_insert(<<self, user>>)
    ELSE Done(followers)

\* unfollow without the is_following guard
unfollow_unguarded(self, user) == followers_delete(<<self, user>>)

unfollow(self, user) ==
    IF is_following(self, user)
    THEN followers_delete(<<self, user>>)
    ELSE Done(followers)

\* followers_count that counts the following relationship
followers_count_following(self) == Cardinality(following(self))

followers_count(self) == Cardinality(User_followers(self))

following_count(self) == Cardinality(following(self))

(***************************************************************************)
(* The feed query.                                                         *)
(***************************************************************************)
\* select(Post).join(Post.author.of_type(Author)): post.user_id = author.id
JoinAuthor ==
    { r \in [post : PostIds, author : UserIds] :
        posts[r.post].user_id = r.author }

\* JoinFollowers with an inner join whatever isouter says
JoinFollowers_inner(rows, isouter) ==
    UNION { { [post |-> r.post, author |-> r.author,
               follower |-> f.row[1], copy |-> f.copy] :
              f \in RelationshipRows(2, 1, r.author) } : r \in rows }

\* .join(Author.followers.of_type(Follower), isouter=True): one row per
\* follower of the author, and a row with a NULL follower for an author
\* nobody follows.
JoinFollowers(rows, isouter) ==
    UNION { IF User_followers(r.author) # {}
            THEN { [post |-> r.post, author |-> r.author,
                    follower |-> f.row[1], copy |-> f.copy] :
                   f \in User_followers(r.author) }
            ELSE IF isouter
                 THEN { [post |-> r.post, author |-> r.author,
                         follower |-> NULL, copy |-> 1] }
                 ELSE {} : r \in rows }

\* .where(or_(Follower.id == self.id, Author.id == self.id)); a comparison
\* with NULL is not true.
Where(rows, self) ==
    { r \in rows : (r.follower # NULL /\ r.follower = self) \/ r.author = self }

\* GroupBy that groups nothing: one row per joined row
GroupBy_none(rows) == rows

\* .group_by(Post): one row per post, of the selected Post columns.
GroupBy(rows) == { [post |-> r.post] : r \in rows }

\* Desc with the order reversed (ascending)
Desc_asc(r, s) == posts[r.post].timestamp <= posts[s.post].timestamp

\* whether row r may come before row s under ORDER BY post.timestamp DESC
Desc(r, s) == posts[r.post].timestamp >= posts[s.post].timestamp

\* .order_by(Post.timestamp.desc()): every listing of the rows, each once,
\* in an order the ORDER BY allows; rows of equal timestamp come in any
\* order.
RECURSIVE OrderBy(_)
OrderBy(rows) ==
    IF rows = {} THEN { <<>> }
    ELSE UNION { { <<r>> \o rest : rest \in OrderBy(rows \ {r}) } :
                 r \in { x \in rows : \A y \in rows : Desc(x, y) } }

\* the results db.session.scalars(self.following_posts()).all() may return:
\* lists of post ids
following_posts(self) ==
    { [i \in 1..Len(s) |-> s[i].post] :
      s \in OrderBy(GroupBy(Where(JoinFollowers(JoinAuthor, TRUE), self))) }

(***************************************************************************)
(* The model layer as tests.py drives it.  response holds what the last   *)
(* call returned or raised.                                                *)
(***************************************************************************)
Return(op, value) == [op |-> op, kind |-> "return", value |-> value]

Raised(op, error) == [op |-> op, kind |-> "raise", value |-> error]

Outcome(op, error) == IF error = None THEN Return(op, None) ELSE Raised(op, error)

\* an anonymous session: no user id in the session cookie
Anonymous == [user_id |-> NULL, remember |-> FALSE]

Init ==
    /\ users = <<>>
    /\ followers = EmptyBag
    /\ posts = <<>>
    /\ session = Anonymous
    /\ response = Return("init", None)

\* db.session.add(User(username=.., email=..)); db.session.commit()
AddUser ==
    /\ Len(users) < Len(UserNames)
    /\ users' = Append(users, User(UserNames[Len(users) + 1],
                                   UserEmails[Len(users) + 1], NoHash))
    /\ response' = Return("add", None)
    /\ UNCHANGED <<followers, posts, session>>

\* db.session.add(Post(author=.., timestamp=..)); db.session.commit()
AddPost(author, timestamp) ==
    /\ Len(posts) < MaxPosts
    /\ author \in UserIds
    /\ posts' = Append(posts, Post(author, timestamp))
    /\ response' = Return("add", None)
    /\ UNCHANGED <<users, followers, session>>

\* self.follow(user); db.session.commit()
Follow(self, user) ==
    /\ self \in UserIds /\ user \in UserIds
    /\ BagCardinality(followers) < MaxEdges \/ is_following(self, user)
    /\ LET done == follow(self, user)
       IN /\ followers' = done.table
          /\ response' = Outcome("follow", done.error)
    /\ UNCHANGED <<users, posts, session>>

\* self.unfollow(user); db.session.commit()
Unfollow(self, user) ==
    /\ self \in UserIds /\ user \in UserIds
    /\ LET done == unfollow(self, user)
       IN /\ followers' = done.table
          /\ response' = Outcome("unfollow", done.error)
    /\ UNCHANGED <<users, posts, session>>

\* db.session.scalars(self.following_posts()).all()
FollowingPosts(self) ==
    /\ self \in UserIds
    /\ \E feed \in following_posts(self) :
         response' = [op |-> "following_posts", kind |-> "return",
                      self |-> self, value |-> feed]
    /\ UNCHANGED <<users, followers, posts, session>>

Next ==
    \/ AddUser
    \/ \E author \in UserIds, timestamp \in Timestamps : AddPost(author, timestamp)
    \/ \E self \in UserIds, user \in UserIds : Follow(self, user)
    \/ \E self \in UserIds, user \in UserIds : Unfollow(self, user)
    \/ \E self \in UserIds : FollowingPosts(self)

Spec == Init /\ [][Next]_vars

\* The follow graph alone, as test_follow drives it: users are added and
\* follow each other, no post is written.
NextFollow ==
    \/ AddUser
    \/ \E self \in UserIds, user \in UserIds : Follow(self, user)
    \/ \E self \in UserIds, user \in UserIds : Unfollow(self, user)

SpecFollow == Init /\ [][NextFollow]_vars

(***************************************************************************)
(* Passwords.  A hash keeps the salt it was made with; the digest is a     *)
(* one-way function of salt and password, kept as the term it is applied   *)
(* to (two digests are equal only for equal salts and equal passwords).    *)
(***************************************************************************)
\* the salts generate_password_hash draws
Salts == {"s1"}

Digest(salt, password) == <<"scrypt", salt, password>>

\* werkzeug.security.generate_password_hash, with the salt it drew
generate_password_hash(password, salt) ==
    [salt |-> salt, digest |-> Digest(salt, password)]

\* werkzeug.security.check_password_hash
check_password_hash(pwhash, password) ==
    pwhash.digest = Digest(pwhash.salt, password)

\* set_password that keeps a password already set
set_password_once(user, password, salt) ==
    IF user.password_hash = NoHash
    THEN [user EXCEPT !.password_hash = generate_password_hash(password, salt)]
    ELSE user

\* User.set_password
set_password(user, password, salt) ==
    [user EXCEPT !.password_hash = generate_password_hash(password, salt)]

\* check_password that accepts every password
check_password_any(user, password) == TRUE

\* User.check_password
check_password(user, password) == check_password_hash(user.password_hash, password)

(***************************************************************************)
(* URLs are strings, kept as sequences of characters.                      *)
(***************************************************************************)
IndexUrl == <<"/", "i", "n", "d", "e", "x">>

LoginUrl == <<"/", "l", "o", "g", "i", "n">>

\* url_for(endpoint) for the endpoints the routes redirect to
url_for(endpoint) == IF endpoint = "index" THEN IndexUrl ELSE LoginUrl

Letters == {"a", "b", "c", "d", "e", "g", "h", "i", "l", "n", "o", "p", "t", "u", "x"}

\* the characters urlsplit allows in a scheme
SchemeChars == Letters \cup {"+", "-", "."}

\* the first position of a character of cs in s, or Len(s) + 1
Find(s, cs) ==
    IF \E k \in 1..Len(s) : s[k] \in cs
    THEN CHOOSE k \in 1..Len(s) :
            s[k] \in cs /\ \A j \in 1..(k - 1) : s[j] \notin cs
    ELSE Len(s) + 1

\* urllib.parse.urlsplit(url): scheme, netloc and the rest
urlsplit(url) ==
    LET i == Find(url, {":"})
        scheme == /\ i > 1 /\ i <= Len(url)
                  /\ url[1] \in Letters
                  /\ \A k \in 1..(i - 1) : url[k] \in SchemeChars
        rest == IF scheme THEN SubSeq(url, i + 1, Len(url)) ELSE url
        slashes == Len(rest) >= 2 /\ rest[1] = "/" /\ rest[2] = "/"
        after == SubSeq(rest, 3, Len(rest))
        stop == Find(after, {"/", "?", "#"})
    IN [scheme |-> IF scheme THEN SubSeq(url, 1, i - 1) ELSE <<>>,
        netloc |-> IF slashes THEN SubSeq(after, 1, stop - 1) ELSE <<>>,
        path |-> IF slashes THEN SubSeq(after, stop, Len(after)) ELSE rest]

(***************************************************************************)
(* The web application: the session, the forms and the routes.             *)
(***************************************************************************)
\* what the forms and the URLs are filled with
Usernames == {"", "john", "susan"}

Emails == {"", "john@example.com", "susan@example.com", "john.example.com"}

Passwords == {"", "cat", "dog"}

\* request.args: the values of ?next=, none when the parameter is missing
NextArgs ==
    { {}, {<<>>}, {<<"/", "u">>}, {<<"/", "/", "e", "/", "u">>},
      {<<"h", "t", "t", "p", ":", "/", "/", "e", "/", "u">>},
      {<<"h", "t", "t", "p", ":", "/", "u">>} }

\* wtforms.validators.Email: the well-formed addresses among Emails
EmailAddresses == {"john@example.com", "susan@example.com"}

\* current_user.is_authenticated: load_user finds the session's user id
is_authenticated == session.user_id # NULL /\ session.user_id \in UserIds

\* db.session.scalar(sa.select(User).where(User.username == username)):
\* the ids of the rows found (at most one, the column being unique)
ByUsername(username) == { id \in UserIds : users[id].username = username }

ByEmail(email) == { id \in UserIds : users[id].email = email }

\* INSERT INTO user: username and email are unique columns
users_insert(user) ==
    IF ByUsername(user.username) # {} \/ ByEmail(user.email) # {}
    THEN Raise(users, "IntegrityError")
    ELSE Done(Append(users, user))

\* before_request: an authenticated request stamps the user's last_seen
before_request ==
    IF is_authenticated
    THEN [users EXCEPT ![session.user_id].last_seen = "request"]
    ELSE users

\* the responses of the routes
Redirect(op, location, flash) ==
    [op |-> op, kind |-> "redirect", location |-> location, template |-> "",
     flash |-> flash, errors |-> {}, next |-> {}]

Render(op, template, errors) ==
    [op |-> op, kind |-> "render", location |-> <<>>, template |-> template,
     flash |-> {}, errors |-> errors, next |-> {}]

Abort(op, status) ==
    [op |-> op, kind |-> status, location |-> <<>>, template |-> "",
     flash |-> {}, errors |-> {}, next |-> {}]

\* @login_required with login.login_view = 'login': an unauthenticated
\* request is sent to the login page, which is told where it came from
Unauthorized(op, path) ==
    [op |-> op, kind |-> "redirect", location |-> url_for("login"), template |-> "",
     flash |-> {"Please log in to access this page."}, errors |-> {},
     next |-> {path}]

\* FlaskForm.validate_on_submit for LoginForm: the errors of the fields
LoginForm_errors(csrf, username, password) ==
    (IF csrf THEN {} ELSE {"The CSRF token is missing."})
    \cup (IF username = "" THEN {"username: This field is required."} ELSE {})
    \cup (IF password = "" THEN {"password: This field is required."} ELSE {})

\* login that tells a missing user from a wrong password
login_telling(method, csrf, username, password, remember_me, args) ==
    IF is_authenticated
    THEN [session |-> session, response |-> Redirect("login", url_for("index"), {})]
    ELSE LET errors == LoginForm_errors(csrf, username, password)
             found == ByUsername(username)
         IN IF method = "POST" /\ errors = {}
            THEN IF found = {}
                 THEN [session |-> session,
                       response |-> Redirect("login", url_for("login"),
                                             {"Invalid username"})]
                 ELSE IF \E id \in found : ~check_password(users[id], password)
                 THEN [session |-> session,
                       response |-> Redirect("login", url_for("login"),
                                             {"Invalid username or password"})]
                 ELSE [session |-> [user_id |-> CHOOSE id \in found : TRUE,
                                    remember |-> remember_me],
                       response |-> Redirect("login", url_for("index"), {})]
            ELSE [session |-> session,
                  response |-> Render("login", "login.html", errors)]

\* login that redirects to whatever ?next= names
login_open(method, csrf, username, password, remember_me, args) ==
    IF is_authenticated
    THEN [session |-> session, response |-> Redirect("login", url_for("index"), {})]
    ELSE LET errors == LoginForm_errors(csrf, username, password)
             found == ByUsername(username)
         IN IF method = "POST" /\ errors = {}
            THEN IF found = {} \/ \E id \in found : ~check_password(users[id], password)
                 THEN [session |-> session,
                       response |-> Redirect("login", url_for("login"),
                                             {"Invalid username or password"})]
                 ELSE LET next_page ==
                              IF args = {} \/ args = {<<>>}
                              THEN url_for("index")
                              ELSE CHOOSE url \in args : TRUE
                      IN [session |-> [user_id |-> CHOOSE id \in found : TRUE,
                                       remember |-> remember_me],
                          response |-> Redirect("login", next_page, {})]
            ELSE [session |-> session,
                  response |-> Render("login", "login.html", errors)]

\* the login view: the session and the response it leaves
login(method, csrf, username, password, remember_me, args) ==
    IF is_authenticated
    THEN [session |-> session, response |-> Redirect("login", url_for("index"), {})]
    ELSE LET errors == LoginForm_errors(csrf, username, password)
             found == ByUsername(username)
         IN IF method = "POST" /\ errors = {}
            THEN IF found = {} \/ \E id \in found : ~check_password(users[id], password)
                 THEN [session |-> session,
                       response |-> Redirect("login", url_for("login"),
                                             {"Invalid username or password"})]
                 ELSE LET next_page ==
                              IF args = {} \/ args = {<<>>}
                                 \/ \E url \in args : urlsplit(url).netloc # <<>>
                              THEN url_for("index")
                              ELSE CHOOSE url \in args : TRUE
                      IN [session |-> [user_id |-> CHOOSE id \in found : TRUE,
                                       remember |-> remember_me],
                          response |-> Redirect("login", next_page, {})]
            ELSE [session |-> session,
                  response |-> Render("login", "login.html", errors)]

\* RegistrationForm.validate_username that finds no user
validate_username_none(username) == {}

\* RegistrationForm.validate_username
validate_username(username) ==
    IF ByUsername(username) # {} THEN {"Please use a different username."} ELSE {}

\* RegistrationForm.validate_email
validate_email(email) ==
    IF ByEmail(email) # {} THEN {"Please use a different email address."} ELSE {}

\* FlaskForm.validate_on_submit for RegistrationForm: the errors of the
\* fields; DataRequired stops a field's validation, Email does not
RegistrationForm_errors(csrf, username, email, password, password2) ==
    (IF csrf THEN {} ELSE {"The CSRF token is missing."})
    \cup (IF username = "" THEN {"username: This field is required."}
          ELSE validate_username(username))
    \cup (IF email = "" THEN {"email: This field is required."}
          ELSE (IF email \in EmailAddresses THEN {} ELSE {"Invalid email address."})
               \cup validate_email(email))
    \cup (IF password = "" THEN {"password: This field is required."} ELSE {})
    \cup (IF password2 = "" THEN {"password2: This field is required."}
          ELSE IF password2 # password
               THEN {"Field must be equal to password."} ELSE {})

\* the register view: the user table and the response it leaves
register(method, csrf, username, email, password, password2, salt) ==
    IF is_authenticated
    THEN [users |-> before_request,
          response |-> Redirect("register", url_for("index"), {})]
    ELSE LET errors == RegistrationForm_errors(csrf, username, email, password, password2)
             user == set_password(User(username, email, NoHash), password, salt)
             done == users_insert(user)
         IN IF method = "POST" /\ errors = {}
            THEN IF done.error = None
                 THEN [users |-> done.table,
                       response |-> Redirect("register", url_for("login"),
                           {"Congratulations, you are now a registered user!"})]
                 ELSE [users |-> users, response |-> Abort("register", "500")]
            ELSE [users |-> users,
                  response |-> Render("register", "register.html", errors)]

\* the index view without @login_required
index_public == Render("index", "index.html", {})

\* the index view under @login_required: the response it leaves
index ==
    IF is_authenticated
    THEN Render("index", "index.html", {})
    ELSE Unauthorized("index", IndexUrl)

\* the user view under @login_required: the response it leaves
user_view(username) ==
    IF ~is_authenticated
    THEN Unauthorized("user", <<"/", "u">>)
    ELSE IF ByUsername(username) = {}
         THEN Abort("user", "404")
         ELSE Render("user", "user.html", {})

\* GET / and GET /index
Index ==
    /\ users' = before_request
    /\ response' = index
    /\ UNCHANGED <<followers, posts, session>>

\* GET /user/<username>
UserPage(username) ==
    /\ users' = before_request
    /\ response' = user_view(username)
    /\ UNCHANGED <<followers, posts, session>>

\* GET or POST /login
Login(method, csrf, username, password, remember_me, args) ==
    /\ users' = before_request
    /\ LET done == login(method, csrf, username, password, remember_me, args)
       IN /\ session' = done.session
          /\ response' = done.response
    /\ UNCHANGED <<followers, posts>>

\* GET /logout
Logout ==
    /\ users' = before_request
    /\ session' = Anonymous
    /\ response' = Redirect("logout", url_for("index"), {})
    /\ UNCHANGED <<followers, posts>>

\* GET or POST /register
Register(method, csrf, username, email, password, password2, salt) ==
    /\ LET done == register(method, csrf, username, email, password, password2, salt)
       IN /\ users' = done.users
          /\ response' = done.response
    /\ UNCHANGED <<followers, posts, session>>

\* a GET carries no form; a POST carries the fields and the CSRF token
NextRoutes ==
    \/ Index
    \/ \E username \in Usernames \ {""} : UserPage(username)
    \/ \E args \in NextArgs : Login("GET", FALSE, "", "", FALSE, args)
    \/ \E csrf \in BOOLEAN, username \in Usernames, password \in Passwords,
          remember_me \in BOOLEAN, args \in NextArgs :
          Login("POST", csrf, username, password, remember_me, args)
    \/ Logout
    \/ \E salt \in Salts : Register("GET", FALSE, "", "", "", "", salt)
    \/ \E csrf \in BOOLEAN, username \in Usernames, email \in Emails,
          password \in Passwords, password2 \in Passwords, salt \in Salts :
          Register("POST", csrf, username, email, password, password2, salt)

SpecRoutes == Init /\ [][NextRoutes]_vars

(***************************************************************************)
(* The feed.                                                               *)
(***************************************************************************)
\* the last call was following_posts
FeedReturned == response.op = "following_posts"

\* the posts a feed lists
InFeed(feed) == { feed[i] : i \in 1..Len(feed) }

\* the followers table holds the edge (a, b)
Edge(a, b) == BagIn(<<a, b>>, followers)

\* C1: the feed following_posts returns for u holds a post if and only if
\* the post's author is u or is followed by u.
C1_FeedMembership ==
    FeedReturned =>
        \A p \in PostIds :
            p \in InFeed(response.value)
                <=> \/ posts[p].user_id = response.self
                    \/ Edge(response.self, posts[p].user_id)

\* C1 witness: u, whom nobody follows, follows v, v follows w; the feed
\* returned for u holds u's own post and leaves out w's.
C1_Witness ==
    /\ FeedReturned
    /\ \A x \in UserIds : ~Edge(x, response.self)
    /\ \E p \in PostIds : posts[p].user_id = response.self /\ p \in InFeed(response.value)
    /\ \E v \in UserIds, q \in PostIds :
         /\ v # response.self
         /\ Edge(response.self, v)
         /\ Edge(v, posts[q].user_id)
         /\ posts[q].user_id \notin {v, response.self}
         /\ q \notin InFeed(response.value)

\* C2: no post is listed twice in a feed.
C2_FeedNoDuplicates ==
    FeedReturned =>
        \A i, j \in 1..Len(response.value) :
            i # j => response.value[i] # response.value[j]

\* C2 witness: a feed returned for u that holds a post of u while u has two
\* followers.
C2_Witness ==
    /\ FeedReturned
    /\ followers_count(response.self) >= 2
    /\ \E p \in InFeed(response.value) : posts[p].user_id = response.self

\* C3: a feed is ordered by timestamp, newest first.
C3_FeedNewestFirst ==
    FeedReturned =>
        \A i, j \in 1..Len(response.value) :
            i < j => posts[response.value[i]].timestamp
                        >= posts[response.value[j]].timestamp

\* C3 witness: a feed that lists the post created second before the post
\* created first, the second being newer.
C3_Witness ==
    /\ FeedReturned
    /\ Len(response.value) = 2
    /\ response.value[1] > response.value[2]
    /\ posts[response.value[1]].timestamp > posts[response.value[2]].timestamp

(***************************************************************************)
(* The follow graph.                                                       *)
(***************************************************************************)
\* a step of follow(a, b) / of unfollow(a, b); the first conjunct, which
\* the action implies, tells the steps of other calls apart at once
FollowStep(a, b) == response'.op = "follow" /\ Follow(a, b)

UnfollowStep(a, b) == response'.op = "unfollow" /\ Unfollow(a, b)

\* C4 as stated: every follow(a, b) leaves a following b with both counts
\* one greater than before.
C4_FollowAlwaysCountsUp ==
    [][\A a, b \in UserIds :
        FollowStep(a, b) =>
            /\ is_following(a, b)'
            /\ following_count(a)' = following_count(a) + 1
            /\ followers_count(b)' = followers_count(b) + 1]_vars

\* C4 amended: when a does not follow b, follow(a, b) leaves a following b
\* with following_count(a) and followers_count(b) one greater than before,
\* and an unfollow(a, b) called next would give back the table as it was
\* before the follow; when a follows b, unfollow(a, b) leaves a not
\* following b with both counts one less.
C4_FollowUnfollowInverse ==
    [][\A a, b \in UserIds :
        /\ (FollowStep(a, b) /\ ~is_following(a, b)) =>
              /\ is_following(a, b)'
              /\ following_count(a)' = following_count(a) + 1
              /\ followers_count(b)' = followers_count(b) + 1
              /\ unfollow(a, b)' = Done(followers)
        /\ (UnfollowStep(a, b) /\ is_following(a, b)) =>
              /\ ~is_following(a, b)'
              /\ following_count(a)' = following_count(a) - 1
              /\ followers_count(b)' = followers_count(b) - 1]_vars

\* C4 witness: a follow has returned and left a table of two edges.
C4_Witness ==
    /\ response = Return("follow", None)
    /\ BagCardinality(followers) = 2

\* C5: follow(a, b) raises nothing; it leaves the table as it is when the
\* edge (a, b) is there and adds exactly that edge otherwise; a second
\* follow(a, b) would change nothing.
C5_FollowIdempotent ==
    [][\A a, b \in UserIds :
        FollowStep(a, b) =>
            /\ response' = Return("follow", None)
            /\ Edge(a, b) => followers' = followers
            /\ ~Edge(a, b) => followers' = followers (+) SetToBag({<<a, b>>})
            /\ follow(a, b)' = Done(followers')]_vars

\* C5 witness: a follow has returned with the table at its bound, so that
\* follows of edges already there have been taken.
C5_Witness ==
    /\ response = Return("follow", None)
    /\ BagCardinality(followers) = MaxEdges

\* C6: unfollow(a, b) raises nothing; it leaves the table as it is when the
\* edge (a, b) is absent and removes exactly that edge otherwise; a second
\* unfollow(a, b) would change nothing.
C6_UnfollowIdempotent ==
    [][\A a, b \in UserIds :
        UnfollowStep(a, b) =>
            /\ response' = Return("unfollow", None)
            /\ ~Edge(a, b) => followers' = followers
            /\ Edge(a, b) => followers' = followers (-) SetToBag({<<a, b>>})
            /\ unfollow(a, b)' = Done(followers')]_vars

\* C6 witness: an unfollow has returned and left a table without edges.
C6_Witness ==
    /\ response = Return("unfollow", None)
    /\ followers = EmptyBag
    /\ Len(users) >= 2

\* C7: the followers table holds each (follower, followed) pair at most
\* once, and v is among the users u is following exactly when u is among
\* the followers of v.
C7_EdgesUnique ==
    /\ \A row \in BagToSet(followers) : CopiesIn(row, followers) = 1
    /\ \A u, v \in UserIds :
         v \in Targets(following(u), 2) <=> u \in Targets(User_followers(v), 1)
    /\ \A u \in UserIds :
         /\ Cardinality(Targets(following(u), 2)) = following_count(u)
         /\ Cardinality(Targets(User_followers(u), 1)) = followers_count(u)

\* C7 witness: after an unfollow, a follows b and b does not follow a.
C7_Witness ==
    /\ response.op = "unfollow"
    /\ \E a, b \in UserIds : a # b /\ Edge(a, b) /\ ~Edge(b, a)

(***************************************************************************)
(* Registration, login and the protected pages.                            *)
(***************************************************************************)
\* the rows of a user table without their last_seen stamps
Accounts(table) ==
    [id \in 1..Len(table) |->
        <<table[id].username, table[id].email, table[id].password_hash>>]

\* C8: no two stored users share a username or an email, and a submitted
\* registration whose username or email is that of a stored user leaves
\* the stored users as they are and is answered by the form again, with
\* the error of the field that is taken.
C8_DuplicateRegistrationRejected ==
    /\ \A i, j \in UserIds :
         i # j => /\ users[i].username # users[j].username
                  /\ users[i].email # users[j].email
    /\ \A csrf \in BOOLEAN, username \in Usernames, email \in Emails,
          password \in Passwords, password2 \in Passwords, salt \in Salts :
         LET done == register("POST", csrf, username, email, password, password2, salt)
         IN (ByUsername(username) # {} \/ ByEmail(email) # {}) =>
               /\ Accounts(done.users) = Accounts(users)
               /\ ~is_authenticated =>
                     /\ done.users = users
                     /\ done.response.kind = "render"
                     /\ done.response.template = "register.html"
                     /\ ByUsername(username) # {} =>
                          "Please use a different username." \in done.response.errors
                     /\ ByEmail(email) # {} =>
                          "Please use a different email address." \in done.response.errors

\* C8 witness: two users are stored and the last registration was turned
\* down for its username and its email.
C8_Witness ==
    /\ Len(users) = 2
    /\ response.op = "register"
    /\ response.kind = "render"
    /\ {"Please use a different username.",
        "Please use a different email address."} \subseteq response.errors

\* the response to a login that fails
InvalidLogin == Redirect("login", url_for("login"), {"Invalid username or password"})

\* C9: a submitted login form that validates, sent from an anonymous
\* session, is answered by the same redirect to the login page with the
\* same flash whether no user has the username or the user's password is
\* another, and the session stays anonymous.
C9_LoginFailuresAlike ==
    \A csrf \in BOOLEAN, username \in Usernames, password \in Passwords,
       remember_me \in BOOLEAN, args \in NextArgs :
        LET done == login("POST", csrf, username, password, remember_me, args)
            unknown == ByUsername(username) = {}
            wrong == \E id \in ByUsername(username) :
                        users[id].password_hash.digest
                            # Digest(users[id].password_hash.salt, password)
        IN (/\ ~is_authenticated
            /\ LoginForm_errors(csrf, username, password) = {}
            /\ unknown \/ wrong) =>
               /\ done.response = InvalidLogin
               /\ done.session = session
               /\ done.session.user_id = NULL

\* C9 witness: a login has just failed in an anonymous session while one of
\* the two usernames is stored and the other is not.
C9_Witness ==
    /\ response = InvalidLogin
    /\ ~is_authenticated
    /\ ByUsername("john") # {}
    /\ ByUsername("susan") = {}

\* the pages behind @login_required
Protected == {"index", "user"}

\* C10: a protected page answers with its page (or its 404) only in an
\* authenticated session and with the redirect to the login page in an
\* anonymous one; a request to the login view changes the session only when
\* it is a submitted form sent from an anonymous session whose username is
\* a stored user's and whose password matches that user's stored hash, and
\* the session then holds that user's id; no other view gives a session a
\* user id.
C10_ProtectedPagesNeedLogin ==
    /\ [](response.op \in Protected =>
            IF is_authenticated
            THEN response.kind \in {"render", "404"}
            ELSE /\ response.kind = "redirect"
                 /\ response.location = url_for("login")
                 /\ response.next # {})
    /\ [](\A method \in {"GET", "POST"}, csrf \in BOOLEAN, username \in Usernames,
             password \in Passwords, remember_me \in BOOLEAN, args \in NextArgs :
            LET done == login(method, csrf, username, password, remember_me, args)
                id == done.session.user_id
            IN done.session # session =>
                  /\ method = "POST"
                  /\ session = Anonymous
                  /\ id \in UserIds
                  /\ users[id].username = username
                  /\ users[id].password_hash
                       = generate_password_hash(password, users[id].password_hash.salt))
    /\ [][(session'.user_id # session.user_id /\ session'.user_id # NULL) =>
            /\ response'.op = "login"
            /\ \E csrf \in BOOLEAN, username \in Usernames, password \in Passwords,
                  remember_me \in BOOLEAN, args \in NextArgs :
                 Login("POST", csrf, username, password, remember_me, args)]_vars

\* C10 witness: after a login and a logout, the index page has answered
\* with the redirect to the login page.
C10_Witness ==
    /\ response = Unauthorized("index", IndexUrl)
    /\ \E id \in UserIds : users[id].last_seen = "request"

(***************************************************************************)
(* The redirect after a login.                                             *)
(***************************************************************************)
\* the ?next= values that name a network location
Elsewhere ==
    { <<"/", "/", "e", "/", "u">>,
      <<"h", "t", "t", "p", ":", "/", "/", "e", "/", "u">> }

\* C11: a login that succeeds redirects to the ?next= value when there is
\* one, it is not empty and urlsplit finds no network location in it, and
\* to the index page otherwise; no response of the login view redirects to
\* a destination with a network location.
C11_LoginRedirectIsLocal ==
    /\ \A csrf \in BOOLEAN, username \in Usernames, password \in Passwords,
          remember_me \in BOOLEAN, args \in NextArgs :
         LET done == login("POST", csrf, username, password, remember_me, args)
             restored == \E url \in args : url # <<>> /\ urlsplit(url).netloc = <<>>
         IN done.session # session =>
              /\ done.response.kind = "redirect"
              /\ restored => done.response.location \in args
              /\ ~restored => done.response.location = url_for("index")
              /\ urlsplit(done.response.location).netloc = <<>>
              /\ done.response.location \notin Elsewhere
    /\ (response.op = "login" /\ response.kind = "redirect") =>
         /\ urlsplit(response.location).netloc = <<>>
         /\ response.location \notin Elsewhere

\* C11 witness: a login has just succeeded and redirected to the local
\* page ?next= named.
C11_Witness ==
    /\ response = Redirect("login", <<"/", "u">>, {})
    /\ is_authenticated

(***************************************************************************)
(* Passwords, as test_password_hashing drives them: users are made, their  *)
(* passwords are set and set again, and passwords are checked.             *)
(***************************************************************************)
\* the salts drawn here: two, so that one password has two hashes
SaltsDrawn == {"s1", "s2"}

\* u.set_password(password)
SetPassword(self, password, salt) ==
    /\ self \in UserIds
    /\ users' = [users EXCEPT ![self] = set_password(users[self], password, salt)]
    /\ response' = Return("set_password", None)
    /\ UNCHANGED <<followers, posts, session>>

\* u.check_password(password); check_password_hash(None, ..) raises
CheckPassword(self, password) ==
    /\ self \in UserIds
    /\ response' =
          IF users[self].password_hash = NoHash
          THEN [op |-> "check_password", kind |-> "raise", self |-> self,
                password |-> password, value |-> FALSE]
          ELSE [op |-> "check_password", kind |-> "return", self |-> self,
                password |-> password,
                value |-> check_password(users[self], password)]
    /\ UNCHANGED <<users, followers, posts, session>>

NextPassword ==
    \/ AddUser
    \/ \E self \in UserIds, password \in Passwords, salt \in SaltsDrawn :
          SetPassword(self, password, salt)
    \/ \E self \in UserIds, password \in Passwords : CheckPassword(self, password)

SpecPassword == Init /\ [][NextPassword]_vars

\* C12: once set_password(p) has run for a user, check_password accepts p
\* and no other password, whatever password the user had before; and
\* every check_password that returns, returns whether the password is the
\* one last set.
C12_PasswordRoundTrip ==
    /\ [][\A self \in UserIds, password \in Passwords, salt \in SaltsDrawn :
            (response'.op = "set_password" /\ SetPassword(self, password, salt)) =>
                \A other \in Passwords :
                    check_password(users[self], other)' = (other = password)]_vars
    /\ []((response.op = "check_password" /\ response.kind = "return") =>
            response.value =
                (\E salt \in SaltsDrawn :
                    users[response.self].password_hash
                        = generate_password_hash(response.password, salt)))

\* C12 witness: the password of a user, set before with the other salt, is
\* "dog" now, and check_password("cat") has returned False.
C12_Witness ==
    /\ response.op = "check_password"
    /\ response.kind = "return"
    /\ response.password = "cat"
    /\ response.value = FALSE
    /\ users[response.self].password_hash = generate_password_hash("dog", "s2")

(***************************************************************************)
(* The follow graph with its queries: users and posts are added, users     *)
(* follow and unfollow each other, and every query of User is called.  A   *)
(* post is stamped by the column default, a clock that has advanced since  *)
(* the post before.                                                        *)
(***************************************************************************)
Answer(op, self, user, value) ==
    [op |-> op, kind |-> "return", self |-> self, user |-> user, value |-> value]

\* u1.is_following(u2)
IsFollowing(self, user) ==
    /\ self \in UserIds /\ user \in UserIds
    /\ response' = Answer("is_following", self, user, is_following(self, user))
    /\ UNCHANGED <<users, followers, posts, session>>

\* u.followers_count()
FollowersCount(self) ==
    /\ self \in UserIds
    /\ response' = Answer("followers_count", self, self, followers_count(self))
    /\ UNCHANGED <<users, followers, posts, session>>

\* u.following_count()
FollowingCount(self) ==
    /\ self \in UserIds
    /\ response' = Answer("following_count", self, self, following_count(self))
    /\ UNCHANGED <<users, followers, posts, session>>

NextGraph ==
    \/ AddUser
    \/ \E author \in UserIds : AddPost(author, Len(posts) + 1)
    \/ \E self \in UserIds, user \in UserIds : Follow(self, user)
    \/ \E self \in UserIds, user \in UserIds : Unfollow(self, user)
    \/ \E self \in UserIds, user \in UserIds : IsFollowing(self, user)
    \/ \E self \in UserIds : FollowersCount(self)
    \/ \E self \in UserIds : FollowingCount(self)
    \/ \E self \in UserIds : FollowingPosts(self)

SpecGraph == Init /\ [][NextGraph]_vars

\* the sum of count(1), .., count(n)
RECURSIVE SumTo(_, _)
SumTo(count(_), n) == IF n = 0 THEN 0 ELSE count(n) + SumTo(count, n - 1)

\* C13: following_count(u) is the number of users u is following,
\* followers_count(u) the number of users following u; v is in the
\* following of u exactly when u is in the followers of v, so the counts
\* add up to the same total; and the counts the queries return are these
\* numbers.
C13_CountsAreCardinalities ==
    /\ \A u \in UserIds :
         /\ following_count(u) = Cardinality({ v \in UserIds : is_following(u, v) })
         /\ followers_count(u) = Cardinality({ w \in UserIds : is_following(w, u) })
    /\ \A u, v \in UserIds :
         (\E r \in following(u) : r.row[2] = v)
            <=> (\E r \in User_followers(v) : r.row[1] = u)
    /\ SumTo(following_count, Len(users)) = SumTo(followers_count, Len(users))
    /\ response.op = "following_count" =>
         response.value = Cardinality({ v \in UserIds : Edge(response.self, v) })
    /\ response.op = "followers_count" =>
         response.value = Cardinality({ w \in UserIds : Edge(w, response.self) })

\* C13 witness: followers_count has returned 2 for a user who follows
\* nobody.
C13_Witness ==
    /\ response.op = "followers_count"
    /\ response.value = 2
    /\ following_count(response.self) = 0

\* C14: follow(a, a) is not rejected.  When a does not follow a, it
\* returns, adds the edge (a, a) and nothing else, leaves a following a
\* with following_count(a) and followers_count(a) each one greater, gives a
\* the feed a had before, and an unfollow(a, a) called next would give back
\* the table as it was.  In every state where a follows a, a is counted
\* once among a's following and once among a's followers, and a feed of a
\* lists a's posts and the posts of the authors a follows, each once.
C14_SelfFollowAccepted ==
    /\ [][\A a \in UserIds :
            (FollowStep(a, a) /\ ~is_following(a, a)) =>
                /\ response' = Return("follow", None)
                /\ followers' = followers (+) SetToBag({<<a, a>>})
                /\ is_following(a, a)'
                /\ following_count(a)' = following_count(a) + 1
                /\ followers_count(a)' = followers_count(a) + 1
                /\ following_posts(a)' = following_posts(a)
                /\ unfollow(a, a)' = Done(followers)]_vars
    /\ [](\A a \in UserIds :
            Edge(a, a) =>
                /\ is_following(a, a)
                /\ Cardinality({ r \in following(a) : r.row[2] = a }) = 1
                /\ Cardinality({ r \in User_followers(a) : r.row[1] = a }) = 1
                /\ unfollow(a, a) = Done(followers (-) SetToBag({<<a, a>>}))
                /\ \A feed \in following_posts(a) :
                     /\ Len(feed) = Cardinality(InFeed(feed))
                     /\ InFeed(feed) = { p \in PostIds :
                                            \/ posts[p].user_id = a
                                            \/ Edge(a, posts[p].user_id) })

\* C14 witness: a follow has returned and left a user who follows
\* themselves and one other author, both with a post.
C14_Witness ==
    /\ response = Return("follow", None)
    /\ \E a, b \in UserIds :
         /\ a # b
         /\ Edge(a, a) /\ Edge(a, b)
         /\ \E p, q \in PostIds : posts[p].user_id = a /\ posts[q].user_id = b

\* the rows of table other than the edge (a, b) are the rows of followers
\* other than it, each as often
OnlyEdge(table, a, b) ==
    \A row \in (BagToSet(table) \cup BagToSet(followers)) \ {<<a, b>>} :
        CopiesIn(row, table) = CopiesIn(row, followers)

\* the calls that only read
Queries == {"is_following", "followers_count", "following_count", "following_posts"}

\* C15: the table follow(a, b) and unfollow(a, b) leave differs from the
\* followers table in no row other than the edge (a, b), the edge (b, a)
\* included; a step of follow or unfollow changes at most one edge and no
\* user, no post and no session; is_following, followers_count,
\* following_count and following_posts change nothing.
C15_FollowGraphFrame ==
    /\ [](\A a, b \in UserIds :
            /\ OnlyEdge(follow(a, b).table, a, b)
            /\ OnlyEdge(unfollow(a, b).table, a, b))
    /\ [][/\ response'.op \in {"follow", "unfollow"} =>
               /\ UNCHANGED <<users, posts, session>>
               /\ \E a, b \in UserIds : OnlyEdge(followers', a, b)
          /\ response'.op \in Queries =>
               UNCHANGED <<users, followers, posts, session>>]_vars

\* C15 witness: an unfollow has returned and left a user who is followed
\* by a user they do not follow, with a post written.
C15_Witness ==
    /\ response = Return("unfollow", None)
    /\ posts # <<>>
    /\ \E a, b \in UserIds : a # b /\ ~Edge(a, b) /\ Edge(b, a)

====
